---- MODULE Spec2Model ----
(***************************************************************************)
(* Model of the signaling server of src/index.js: the two presence maps,   *)
(* the rooms of the socket.io adapter, and one action per socket event     *)
(* handler (room:join, the four negotiation relays, disconnect, error)     *)
(* plus the opening of a connection.  Node runs one handler at a time to   *)
(* its end, so every handler is one atomic action.                         *)
(***************************************************************************)
EXTENDS Naturals, Sequences, FiniteSets

\* ------------------------------------------------------------------ values

\* The value of a field the message does not carry (JavaScript undefined).
Undefined == "<undefined>"

\* Connection handles (socket.id).  A handle is used by one connection only.
Handles == {"s1", "s2", "s3"}

\* Identities (the email field of room:join).
Emails == {"a@x.com", "b@x.com"}

\* Room tokens that are no connection handle.
RoomNames == {"r1"}

\* Every name the adapter can hold a room under: socket.io keeps one
\* namespace for client-chosen rooms and for the room each socket joins
\* under its own id, so a room token may equal a handle.
Tokens == RoomNames \cup Handles

\* Negotiation blobs.
Blobs == {"o1", "o2"}

\* `!v` of lines 34, 76, 86, 96, 107, and the negation of `if (email)` of
\* line 120 and of `existingSocketId &&` of line 41.
Falsy(v) == v \in {Undefined, ""}

\* A value that is truthy and cannot be converted to a string, such as the
\* object {"toString": 1}: interpolating it into a template literal throws a
\* TypeError.  Every other value of the model converts.
Obj == "<object>"

\* `${v}` of lines 97, 108 and 132 throws.
ToStringThrows(v) == v = Obj

\* The payload of an event whose first argument is no object (undefined or
\* null): destructuring it throws a TypeError.
NoData == [isObject |-> FALSE]

\* The room tokens clients use in room:join: a name of their own and the id
\* of a connection, which clients learn from user:joined.
JoinRooms == {"r1", "s1"}

\* Payloads a client can send with room:join: none, both fields, and an
\* object in which a field is missing or empty.
JoinData == {NoData}
    \cup {[isObject |-> TRUE, email |-> e, room |-> r] : e \in Emails, r \in JoinRooms}
    \cup {[isObject |-> TRUE, email |-> e, room |-> "r1"] : e \in {Undefined, ""}}
    \cup {[isObject |-> TRUE, email |-> "a@x.com", room |-> r] : r \in {Undefined, ""}}

\* The four negotiation events: the field that carries the blob, the event
\* that is forwarded, and the message of the error sent back.
NegoEvents == {"user:call", "call:accepted", "peer:nego:needed", "peer:nego:done"}

BlobKey(ev) == IF ev \in {"user:call", "peer:nego:needed"} THEN "offer" ELSE "ans"

ForwardedEventBug(ev) ==
    CASE ev = "user:call"        -> "incoming:call"
      [] ev = "call:accepted"    -> "call:accepted"
      [] ev = "peer:nego:needed" -> "peer:nego:needed"
      [] ev = "peer:nego:done"   -> "peer:nego:done"

ForwardedEvent(ev) ==
    CASE ev = "user:call"        -> "incoming:call"
      [] ev = "call:accepted"    -> "call:accepted"
      [] ev = "peer:nego:needed" -> "peer:nego:needed"
      [] ev = "peer:nego:done"   -> "peer:nego:final"

NegoErrorMessage(ev) ==
    CASE ev = "user:call"        -> "Invalid call attempt"
      [] ev = "call:accepted"    -> "Invalid call acceptance"
      [] ev = "peer:nego:needed" -> "Invalid negotiation attempt"
      [] ev = "peer:nego:done"   -> "Invalid negotiation completion"

\* The handlers that log the target before they forward (lines 97, 108).
LogsTarget(ev) == ev \in {"peer:nego:needed", "peer:nego:done"}

\* Payloads a client can send with a negotiation event: none, both fields,
\* an object in which a field is missing or empty, and a target that is no
\* string.  `blob` is the value under the key the handler of that event
\* reads (offer or ans).
NegoData == {NoData}
    \cup {[isObject |-> TRUE, to |-> Obj, blob |-> "o1"]}
    \cup {[isObject |-> TRUE, to |-> t, blob |-> "o1"] : t \in Tokens}
    \cup {[isObject |-> TRUE, to |-> "s1", blob |-> "o2"]}
    \cup {[isObject |-> TRUE, to |-> t, blob |-> "o1"] : t \in {Undefined, ""}}
    \cup {[isObject |-> TRUE, to |-> "s1", blob |-> b] : b \in {Undefined, ""}}

\* Payloads a client can send with the event "error": none, an object (an
\* Error-like {message}), and an object whose message is no string.
ErrorData == {NoData, [isObject |-> TRUE, message |-> "boom"],
              [isObject |-> TRUE, message |-> Obj]}

\* ------------------------------------------------------------------- state

VARIABLES
    status,              \* handle -> "new" (not yet connected), "open", "closed"
    emailToSocketIdMap,  \* identity -> handle, Undefined where the Map has no key
    socketIdToEmailMap,  \* handle -> identity, Undefined where the Map has no key
    rooms,               \* token -> the room's members in insertion order; <<>> = no room
    running,             \* FALSE once an exception has escaped a handler
    last,                \* the event handled last: its name, socket and payload
    trace,               \* what the last handler did, in order
    joinedAs             \* history: handle -> the identities it has joined under

vars == <<status, emailToSocketIdMap, socketIdToEmailMap, rooms, running, last, trace,
          joinedAs>>

\* ----------------------------------------------------------------- helpers

Range(s) == {s[i] : i \in 1..Len(s)}

Without(s, h) == SelectSeq(s, LAMBDA x : x # h)

\* io.sockets.adapter.rooms.get(room) and Array.from of it: the members in
\* insertion order, none when the adapter has no such room.
RoomMembers(rs, room) == IF room \in DOMAIN rs THEN rs[room] ELSE <<>>

\* socket.join(room): a Set add, so joining twice keeps one membership.
SocketJoin(rs, room, id) ==
    IF id \in Range(rs[room]) THEN rs
    ELSE [rs EXCEPT ![room] = Append(@, id)]

\* What socket.io does to the rooms when a socket closes: it leaves all of
\* them, before its disconnect listeners run.
LeaveAll(rs, id) == [t \in Tokens |-> Without(rs[t], id)]

\* The steps a handler records in `trace`.
\* socket.emit(ev, body): to this socket alone.
EmitToSocketBug(id, ev, body) ==
    [op |-> "emit", ev |-> ev, addr |-> id, direct |-> TRUE, rcpt |-> Handles, body |-> body]

EmitToSocket(id, ev, body) ==
    [op |-> "emit", ev |-> ev, addr |-> id, direct |-> TRUE, rcpt |-> {id}, body |-> body]

\* io.to(room).emit(ev, body): to the members the room has at that moment.
EmitToRoom(rs, room, ev, body) ==
    [op |-> "emit", ev |-> ev, addr |-> room, direct |-> FALSE,
     rcpt |-> Range(RoomMembers(rs, room)), body |-> body]

Step(name, members) == [op |-> name, members |-> members]

Emits(tr) == SelectSeq(tr, LAMBDA s : s.op = "emit")

\* ------------------------------------------------------------- disconnect

\* The body of the disconnect listener (lines 119-124) on the two maps.
OnDisconnectE2SBug(e2s, s2e, id) ==
    IF ~Falsy(s2e[id]) THEN [e2s EXCEPT ![s2e[id]] = Undefined]
    ELSE [e \in DOMAIN e2s |-> Undefined]

OnDisconnectE2S(e2s, s2e, id) ==
    IF ~Falsy(s2e[id]) THEN [e2s EXCEPT ![s2e[id]] = Undefined] ELSE e2s

OnDisconnectS2E(s2e, id) ==
    IF ~Falsy(s2e[id]) THEN [s2e EXCEPT ![id] = Undefined] ELSE s2e

\* A connection closes (the client leaves or the transport times out).
Disconnect(id) ==
    /\ running
    /\ status[id] = "open"
    /\ status' = [status EXCEPT ![id] = "closed"]
    /\ rooms' = LeaveAll(rooms, id)
    /\ emailToSocketIdMap' = OnDisconnectE2S(emailToSocketIdMap, socketIdToEmailMap, id)
    /\ socketIdToEmailMap' = OnDisconnectS2E(socketIdToEmailMap, id)
    /\ last' = [ev |-> "disconnect", id |-> id, data |-> NoData]
    /\ trace' = <<>>
    /\ UNCHANGED <<running, joinedAs>>

\* ---------------------------------------------------------------- connect

\* The id socket.io hands out next: ids are fresh, so the handles are named
\* in the order in which their connections open.
NextHandle(st) ==
    CASE st["s1"] = "new" -> "s1"
      [] st["s1"] # "new" /\ st["s2"] = "new" -> "s2"
      [] st["s2"] # "new" /\ st["s3"] = "new" -> "s3"
      [] OTHER -> Undefined

\* A client connects: socket.io gives it a fresh id and puts it in the room
\* of that name, then runs the connection listener (line 27).
Connect(id) ==
    /\ running
    /\ id = NextHandle(status)
    /\ status' = [status EXCEPT ![id] = "open"]
    /\ rooms' = SocketJoin(rooms, id, id)
    /\ last' = [ev |-> "connection", id |-> id, data |-> NoData]
    /\ trace' = <<>>
    /\ UNCHANGED <<emailToSocketIdMap, socketIdToEmailMap, running, joinedAs>>

\* --------------------------------------------------------------- room:join

\* Line 34.
JoinInvalid(data) == Falsy(data.email) \/ Falsy(data.room)

\* Lines 40-41: the handle the join evicts, Undefined when it evicts none.
EvictedBug(e2s, id, email) == Undefined

Evicted(e2s, id, email) ==
    IF ~Falsy(e2s[email]) /\ e2s[email] # id THEN e2s[email] ELSE Undefined

\* Line 43: io.sockets.sockets.get(existingSocketId)?.disconnect(true) closes
\* the socket if it is connected.
ClosedByJoin(st, ev) == IF ev # Undefined /\ st[ev] = "open" THEN {ev} ELSE {}

\* Lines 42-43 and 48 on socketIdToEmailMap: the evicted entry is deleted,
\* the evicted socket's disconnect listener runs, the joiner is entered.
JoinS2E(s2e, st, id, email, ev) ==
    LET deleted == IF ev # Undefined THEN [s2e EXCEPT ![ev] = Undefined] ELSE s2e
        closed  == IF ClosedByJoin(st, ev) # {} THEN OnDisconnectS2E(deleted, ev) ELSE deleted
    IN  [closed EXCEPT ![id] = email]

\* Lines 42-43 and 47 on emailToSocketIdMap.
JoinE2SBug(e2s, s2e, st, id, email, ev) ==
    LET deleted == IF ev # Undefined THEN [s2e EXCEPT ![ev] = Undefined] ELSE s2e
    IN  IF ClosedByJoin(st, ev) # {} THEN OnDisconnectE2S(e2s, deleted, ev) ELSE e2s

JoinE2S(e2s, s2e, st, id, email, ev) ==
    LET deleted == IF ev # Undefined THEN [s2e EXCEPT ![ev] = Undefined] ELSE s2e
        closed  == IF ClosedByJoin(st, ev) # {} THEN OnDisconnectE2S(e2s, deleted, ev) ELSE e2s
    IN  [closed EXCEPT ![email] = id]

\* The rooms after line 43: a socket the join closed has left all of them.
RoomsAfterEviction(rs, st, ev) ==
    IF ClosedByJoin(st, ev) # {} THEN LeaveAll(rs, ev) ELSE rs

\* Lines 59-64: one direct user:joined per enumerated member other than the
\* joiner, with the identity socketIdToEmailMap holds for it at that moment.
RECURSIVE NoticesBug(_, _, _)
NoticesBug(existingSocketIds, s2e, id) ==
    IF existingSocketIds = <<>> THEN <<>>
    ELSE LET existingId == Head(existingSocketIds)
         IN  <<EmitToSocket(id, "user:joined",
                   [email |-> s2e[existingId], id |-> existingId])>>
             \o NoticesBug(Tail(existingSocketIds), s2e, id)

RECURSIVE Notices(_, _, _)
Notices(existingSocketIds, s2e, id) ==
    IF existingSocketIds = <<>> THEN <<>>
    ELSE LET existingId == Head(existingSocketIds)
             rest == Notices(Tail(existingSocketIds), s2e, id)
         IN  IF existingId # id
             THEN <<EmitToSocket(id, "user:joined",
                        [email |-> s2e[existingId], id |-> existingId])>> \o rest
             ELSE rest

\* Lines 50-66 in the order in which the bugged variants below differ.
JoinTraceBug(rs, s2e, id, data) ==
    LET existingSocketIds == RoomMembers(rs, data.room)
        joined == SocketJoin(rs, data.room, id)
    IN  <<Step("enumerate", existingSocketIds), Step("join", joined[data.room])>>
        \o Notices(existingSocketIds, s2e, id)
        \o <<EmitToRoom(joined, data.room, "user:joined", [email |-> data.email, id |-> id]),
             EmitToSocket(id, "room:join", data)>>

\* Lines 50-66: enumerate, join, broadcast, notices, echo.  `rs` are the
\* rooms after the eviction, `s2e` is socketIdToEmailMap after line 48.
JoinTrace(rs, s2e, id, data) ==
    LET existingSocketIds == RoomMembers(rs, data.room)
        joined == SocketJoin(rs, data.room, id)
    IN  <<Step("enumerate", existingSocketIds), Step("join", joined[data.room]),
          EmitToRoom(joined, data.room, "user:joined", [email |-> data.email, id |-> id])>>
        \o Notices(existingSocketIds, s2e, id)
        \o <<EmitToSocket(id, "room:join", data)>>

RoomJoin(id, data) ==
    /\ running
    /\ status[id] = "open"
    /\ last' = [ev |-> "room:join", id |-> id, data |-> data]
    /\ UNCHANGED running
    /\ IF ~data.isObject
       THEN \* line 33 throws inside the try; lines 67-69
            /\ trace' = <<EmitToSocket(id, "error", [message |-> "Failed to join room"])>>
            /\ UNCHANGED <<status, emailToSocketIdMap, socketIdToEmailMap, rooms, joinedAs>>
       ELSE IF JoinInvalid(data)
       THEN \* lines 34-37
            /\ trace' = <<EmitToSocket(id, "error", [message |-> "Invalid room join data"])>>
            /\ UNCHANGED <<status, emailToSocketIdMap, socketIdToEmailMap, rooms, joinedAs>>
       ELSE LET ev  == Evicted(emailToSocketIdMap, id, data.email)
                s2e == JoinS2E(socketIdToEmailMap, status, id, data.email, ev)
                rs  == RoomsAfterEviction(rooms, status, ev)
            IN  /\ status' = [h \in Handles |->
                                IF h \in ClosedByJoin(status, ev) THEN "closed" ELSE status[h]]
                /\ emailToSocketIdMap' =
                       JoinE2S(emailToSocketIdMap, socketIdToEmailMap, status, id, data.email, ev)
                /\ socketIdToEmailMap' = s2e
                /\ rooms' = SocketJoin(rs, data.room, id)
                /\ trace' = JoinTrace(rs, s2e, id, data)
                /\ joinedAs' = [joinedAs EXCEPT ![id] = @ \cup {data.email}]

\* ------------------------------------------------------------- negotiation

\* Lines 76, 86, 96, 107.
NegoInvalid(data) == Falsy(data.to) \/ Falsy(data.blob)

\* The body forwarded: {from: socket.id, offer} or {from: socket.id, ans}.
ForwardedBodyBug(ev, id, data) ==
    IF BlobKey(ev) = "offer" THEN [from |-> data.to, offer |-> data.blob]
    ELSE [from |-> data.to, ans |-> data.blob]

ForwardedBody(ev, id, data) ==
    IF BlobKey(ev) = "offer" THEN [from |-> id, offer |-> data.blob]
    ELSE [from |-> id, ans |-> data.blob]

\* The try block of a negotiation handler and its catch: the test of the
\* two fields, in peer:nego:needed and peer:nego:done the log line that
\* interpolates the target, and the forward.  A throw of either of the first
\* two goes to the catch, which answers the sender.
NegoTraceBug(rs, ev, id, data) ==
    <<EmitToRoom(rs, data.to, ForwardedEvent(ev), ForwardedBody(ev, id, data))>>

NegoTrace(rs, ev, id, data) ==
    IF NegoInvalid(data) \/ (LogsTarget(ev) /\ ToStringThrows(data.to))
    THEN <<EmitToSocket(id, "error", [message |-> NegoErrorMessage(ev)])>>
    ELSE <<EmitToRoom(rs, data.to, ForwardedEvent(ev), ForwardedBody(ev, id, data))>>

\* user:call (74-82), call:accepted (84-92), peer:nego:needed (94-103) and
\* peer:nego:done (105-114).  The parameter list destructures the payload
\* outside the try, so a payload that is no object throws out of the handler;
\* socket.io calls listeners without a catch and nothing in the file handles
\* uncaughtException, so the process ends.
Nego(ev, id, data) ==
    /\ running
    /\ status[id] = "open"
    /\ last' = [ev |-> ev, id |-> id, data |-> data]
    /\ IF ~data.isObject
       THEN /\ running' = FALSE
            /\ trace' = <<Step("throw", <<>>)>>
       ELSE /\ running' = running
            /\ trace' = NegoTrace(rooms, ev, id, data)
    /\ UNCHANGED <<status, emailToSocketIdMap, socketIdToEmailMap, rooms, joinedAs>>

\* ------------------------------------------------------------------- error

\* The listener of the socket's "error" event (lines 131-133), which a
\* client can emit like any other event: it logs err.message and touches
\* nothing.  It has no try, so a payload that is undefined or null, or whose
\* message cannot be converted to a string, throws a TypeError out of the
\* listener and the process ends.
SocketError(id, data) ==
    /\ running
    /\ status[id] = "open"
    /\ last' = [ev |-> "error", id |-> id, data |-> data]
    /\ IF ~data.isObject \/ ToStringThrows(data.message)
       THEN /\ running' = FALSE
            /\ trace' = <<Step("throw", <<>>)>>
       ELSE /\ running' = running
            /\ trace' = <<>>
    /\ UNCHANGED <<status, emailToSocketIdMap, socketIdToEmailMap, rooms, joinedAs>>

\* ----------------------------------------------------------- specification

Init ==
    /\ status = [h \in Handles |-> "new"]
    /\ emailToSocketIdMap = [e \in Emails |-> Undefined]
    /\ socketIdToEmailMap = [h \in Handles |-> Undefined]
    /\ rooms = [t \in Tokens |-> <<>>]
    /\ running = TRUE
    /\ last = [ev |-> "listen", id |-> Undefined, data |-> NoData]
    /\ trace = <<>>
    /\ joinedAs = [h \in Handles |-> {}]

Next ==
    \/ \E id \in Handles : Connect(id)
    \/ \E id \in Handles : Disconnect(id)
    \/ \E id \in Handles, data \in JoinData : RoomJoin(id, data)
    \/ \E ev \in NegoEvents, id \in Handles, data \in NegoData : Nego(ev, id, data)
    \/ \E id \in Handles, data \in ErrorData : SocketError(id, data)

Spec == Init /\ [][Next]_vars

TypeOK ==
    /\ status \in [Handles -> {"new", "open", "closed"}]
    /\ emailToSocketIdMap \in [Emails -> Handles \cup {Undefined}]
    /\ socketIdToEmailMap \in [Handles -> Emails \cup {Undefined}]
    /\ running \in BOOLEAN
    /\ joinedAs \in [Handles -> SUBSET Emails]
    /\ \A t \in Tokens : Range(rooms[t]) \subseteq {h \in Handles : status[h] = "open"}

\* ------------------------------------------------------------------ claims

\* The step is the handling of a room:join with both fields.
JoinStep == last'.ev = "room:join" /\ last'.data.isObject /\ ~JoinInvalid(last'.data)

\* The last handler was room:join with both fields.
LastIsJoin == last.ev = "room:join" /\ last.data.isObject /\ ~JoinInvalid(last.data)

\* The positions in a trace of the room broadcast of user:joined, of the
\* direct user:joined notices and of the room:join echo.
BroadcastIdx(tr) ==
    {i \in DOMAIN tr : tr[i].op = "emit" /\ tr[i].ev = "user:joined" /\ ~tr[i].direct}

NoticeIdx(tr) ==
    {i \in DOMAIN tr : tr[i].op = "emit" /\ tr[i].ev = "user:joined" /\ tr[i].direct}

EchoIdx(tr) == {i \in DOMAIN tr : tr[i].op = "emit" /\ tr[i].ev = "room:join"}

\* C1 (as claimed): after every handler the two maps are mutual inverses:
\* identity e maps to handle h exactly when handle h maps to identity e.
C1_MutualInverses ==
    \A e \in Emails, h \in Handles :
        (emailToSocketIdMap[e] = h) <=> (socketIdToEmailMap[h] = e)

\* C2 (as claimed): when identity e was joined by handle a, a is still open
\* and another handle b joins as e, then after b's join a is closed, e maps
\* to b, b maps to e, and neither map has an entry for a.
C2_EvictionLeavesNoEntry ==
    [][\A a \in Handles :
          (/\ JoinStep
           /\ a # last'.id
           /\ last'.data.email \in joinedAs[a]
           /\ status[a] = "open")
          => (/\ status'[a] = "closed"
              /\ emailToSocketIdMap'[last'.data.email] = last'.id
              /\ socketIdToEmailMap'[last'.id] = last'.data.email
              /\ socketIdToEmailMap'[a] = Undefined
              /\ \A e \in Emails : emailToSocketIdMap'[e] # a)]_vars

\* C3: no two distinct handles resolve to the same identity.
C3_OneHandlePerIdentity ==
    \A h1 \in Handles, h2 \in Handles :
        (h1 # h2 /\ socketIdToEmailMap[h1] # Undefined)
            => socketIdToEmailMap[h1] # socketIdToEmailMap[h2]

\* C3 witness: a join has just displaced an open handle registered under
\* the same identity, and a second handle is registered under another one.
C3_Witness ==
    /\ LastIsJoin
    /\ socketIdToEmailMap[last.id] = last.data.email
    /\ \E a \in Handles \ {last.id} :
          last.data.email \in joinedAs[a] /\ status[a] = "closed"
    /\ \E c \in Handles \ {last.id} : socketIdToEmailMap[c] # Undefined

\* The members room R had when the joiner was added to it, read off the two
\* states of a join step: the members after the step, less the joiner
\* unless it was a member already.
MembersBeforeAdd(id, room) ==
    IF id \in Range(rooms[room]) THEN Range(rooms'[room])
    ELSE Range(rooms'[room]) \ {id}

\* The emissions of a join step by `id` with payload `data`: one broadcast
\* of user:joined to the room, the joiner among its recipients; one direct
\* notice to the joiner for each handle of `noticed` and no other; one echo
\* of room:join to the joiner with the payload.
JoinEmissions(tr, rs, id, data, noticed) ==
    /\ Cardinality(BroadcastIdx(tr)) = 1
    /\ \A i \in BroadcastIdx(tr) :
          /\ tr[i].addr = data.room
          /\ tr[i].rcpt = Range(rs[data.room])
          /\ id \in tr[i].rcpt
          /\ tr[i].body = [email |-> data.email, id |-> id]
    /\ \A i \in NoticeIdx(tr) : tr[i].rcpt = {id} /\ tr[i].body.id \in noticed
    /\ \A m \in noticed : Cardinality({i \in NoticeIdx(tr) : tr[i].body.id = m}) = 1
    /\ Cardinality(EchoIdx(tr)) = 1
    /\ \A i \in EchoIdx(tr) : tr[i].rcpt = {id} /\ tr[i].body = data
    /\ Len(Emits(tr)) = 2 + Cardinality(noticed)

\* C4 (as claimed): a valid join emits one broadcast, one direct notice per
\* member the room had before the joiner was added, and one echo.
C4_NoticePerPriorMember ==
    [][JoinStep
          => JoinEmissions(trace', rooms', last'.id, last'.data,
                           MembersBeforeAdd(last'.id, last'.data.room))]_vars

\* C4 (amended): a valid join emits one broadcast, one direct notice per
\* member other than the joiner itself that the room had before the joiner
\* was added, and one echo.
C4_NoticePerOtherPriorMember ==
    [][JoinStep
          => JoinEmissions(trace', rooms', last'.id, last'.data,
                           MembersBeforeAdd(last'.id, last'.data.room) \ {last'.id})]_vars

\* C4 witness: a handle that was a member of the room joins it again and is
\* told of two other members.
C4_Witness ==
    /\ LastIsJoin
    /\ last.id \in Range(trace[1].members)
    /\ Cardinality(NoticeIdx(trace)) = 2

\* C5: in a valid join the members are enumerated, then the joiner is
\* added, then the one broadcast is emitted (the joiner receives it), then
\* the direct notices, and last the echo.
C5_JoinOrder ==
    LastIsJoin =>
        LET n == Len(trace) IN
        /\ n >= 4
        /\ trace[1].op = "enumerate"
        /\ trace[2].op = "join"
        /\ last.id \in Range(trace[2].members)
        /\ BroadcastIdx(trace) = {3}
        /\ last.id \in trace[3].rcpt
        /\ NoticeIdx(trace) = 4..(n - 1)
        /\ EchoIdx(trace) = {n}

\* C5 witness: a join into a room with two earlier members.
C5_Witness ==
    /\ LastIsJoin
    /\ Len(trace) = 6
    /\ last.id \notin Range(trace[1].members)

\* The last handler was a negotiation handler and its payload an object.
LastIsNego == last.ev \in NegoEvents /\ last.data.isObject

\* The positions in the trace of a negotiation handler of the events it
\* forwarded (every emission other than the error to the sender).
ForwardIdx(tr) == {i \in DOMAIN tr : tr[i].op = "emit" /\ tr[i].ev # "error"}

\* The last handler emitted one event and no more: the forwarded event of
\* the table of the four handlers, addressed to the target, with the
\* sender's handle and the blob under its key.
ForwardedOnce ==
    /\ Len(trace) = 1
    /\ trace[1].op = "emit"
    /\ ~trace[1].direct
    /\ trace[1].addr = last.data.to
    /\ trace[1].ev = (CASE last.ev = "user:call"        -> "incoming:call"
                        [] last.ev = "call:accepted"    -> "call:accepted"
                        [] last.ev = "peer:nego:needed" -> "peer:nego:needed"
                        [] last.ev = "peer:nego:done"   -> "peer:nego:final")
    /\ trace[1].body = (IF last.ev \in {"user:call", "peer:nego:needed"}
                        THEN [from |-> last.id, offer |-> last.data.blob]
                        ELSE [from |-> last.id, ans |-> last.data.blob])

\* C6 (as claimed): a negotiation event that carries both a target and a
\* payload is forwarded once to the target, under the mapped name, with the
\* sender's handle and the payload, and no error goes to the sender.
C6_ForwardedWhenPresent ==
    (LastIsNego /\ last.data.to # Undefined /\ last.data.blob # Undefined)
        => ForwardedOnce

\* C6 (amended): a negotiation event that carries both a target that is a
\* non-empty string and a non-empty payload is forwarded once to the target,
\* under the mapped name, with the sender's handle and the payload, and no
\* error goes to the sender.
C6_ForwardedWhenNonEmpty ==
    (LastIsNego /\ last.data.to \notin {Undefined, "", Obj}
                /\ last.data.blob \notin {Undefined, ""})
        => ForwardedOnce

\* C6 witness: peer:nego:done with a target and a payload has been relayed
\* to another open connection.
C6_Witness ==
    /\ LastIsNego
    /\ last.ev = "peer:nego:done"
    /\ last.data.blob = "o1"
    /\ last.data.to \in Handles \ {last.id}
    /\ trace[1].rcpt = {last.data.to}

\* C7: a negotiation event whose object lacks the target or the payload
\* field (or holds an empty one) sends one error to the sender, forwards
\* nothing, and leaves the sender's connection open.
C7_ErrorWhenFieldMissing ==
    (LastIsNego /\ (Falsy(last.data.to) \/ Falsy(last.data.blob)))
        => /\ Len(trace) = 1
           /\ trace[1].op = "emit"
           /\ trace[1].ev = "error"
           /\ trace[1].direct
           /\ trace[1].rcpt = {last.id}
           /\ status[last.id] = "open"
           /\ running

\* C7 witness: an event without its payload field, addressed to another
\* open connection, has been handled.
C7_Witness ==
    /\ LastIsNego
    /\ last.data.blob = Undefined
    /\ last.data.to \in Handles \ {last.id}
    /\ status[last.data.to] = "open"

\* C8 (as claimed): no exception escapes the handler of room:join or of a
\* negotiation event, whatever the payload, and the server keeps running.
C8_NoExceptionEscapes ==
    last.ev \in NegoEvents \cup {"room:join"}
        => /\ running
           /\ \A i \in DOMAIN trace : trace[i].op # "throw"

\* C9 (as claimed): a well-formed negotiation event whose target handle has
\* no open connection reaches no connection, sends no error, raises no
\* exception and leaves the directory and the rooms as they were.
C9_RelayToAbsentHandleIsNoOp ==
    [][(/\ last'.ev \in NegoEvents
        /\ last'.data.isObject
        /\ ~NegoInvalid(last'.data)
        /\ last'.data.to \in Handles
        /\ status[last'.data.to] # "open")
       => (/\ \A i \in DOMAIN trace' :
                 /\ trace'[i].op = "emit"
                 /\ trace'[i].ev # "error"
                 /\ trace'[i].rcpt = {}
           /\ running'
           /\ UNCHANGED <<emailToSocketIdMap, socketIdToEmailMap, rooms>>)]_vars

\* C10 (as claimed): once the close of handle h has been handled, the
\* directory has no entry for h in either direction.
C10_NoEntryAfterClose ==
    \A h \in Handles :
        status[h] = "closed"
            => /\ socketIdToEmailMap[h] = Undefined
               /\ \A e \in Emails : emailToSocketIdMap[e] # h

\* C11: the close of a handle that has no entry in socketIdToEmailMap
\* changes neither map, emits nothing and raises no exception.
C11_CloseOfUnregisteredIsNoOp ==
    [][(last'.ev = "disconnect" /\ socketIdToEmailMap[last'.id] = Undefined)
       => (/\ UNCHANGED <<emailToSocketIdMap, socketIdToEmailMap>>
           /\ trace' = <<>>
           /\ running')]_vars

\* C11 witness: a handle that never joined has closed while the directory
\* holds the entries of another handle.
C11_Witness ==
    /\ last.ev = "disconnect"
    /\ joinedAs[last.id] = {}
    /\ \E h \in Handles : socketIdToEmailMap[h] # Undefined
                          /\ emailToSocketIdMap[socketIdToEmailMap[h]] = h

\* C12 (as claimed): once handle a has closed it resolves to no identity,
\* and a join under an identity a had joined under, by another handle b and
\* with no open handle registered under that identity, finds no entry of
\* the identity that points to a handle other than b (so it evicts nothing)
\* and ends with the identity mapped both ways to b.
C12_NoStaleEviction ==
    [][\A a \in Handles :
          (/\ JoinStep
           /\ a # last'.id
           /\ status[a] = "closed"
           /\ last'.data.email \in joinedAs[a]
           /\ \A h \in Handles \ {last'.id} :
                 status[h] = "open" => socketIdToEmailMap[h] # last'.data.email)
          => (/\ socketIdToEmailMap[a] = Undefined
              /\ emailToSocketIdMap[last'.data.email] \in {Undefined, last'.id}
              /\ emailToSocketIdMap'[last'.data.email] = last'.id
              /\ socketIdToEmailMap'[last'.id] = last'.data.email)]_vars

\* C13: a room:join without its identity or its room (or without any
\* payload object) sends one error to the sender and does nothing else: the
\* maps, the rooms and every connection stay as they were.
C13_InvalidJoinOnlyErrors ==
    [][(last'.ev = "room:join" /\ (~last'.data.isObject \/ JoinInvalid(last'.data)))
       => (/\ Len(trace') = 1
           /\ trace'[1].op = "emit"
           /\ trace'[1].ev = "error"
           /\ trace'[1].direct
           /\ trace'[1].rcpt = {last'.id}
           /\ UNCHANGED <<emailToSocketIdMap, socketIdToEmailMap, rooms, status>>
           /\ status'[last'.id] = "open"
           /\ running')]_vars

\* C13 witness: a join without its identity, for a room that has members,
\* sent by a handle that is registered.
C13_Witness ==
    /\ last.ev = "room:join"
    /\ last.data.isObject
    /\ last.data.email = Undefined
    /\ rooms[last.data.room] # <<>>
    /\ socketIdToEmailMap[last.id] # Undefined

\* C14: the `from` of every forwarded event is the handle of the connection
\* that delivered the message, whatever the payload holds; two messages of
\* one connection that differ in the payload alone so carry the same `from`.
C14_FromIsSender ==
    LastIsNego => \A i \in ForwardIdx(trace) : trace[i].body.from = last.id

\* C14 witness: the second of the two payloads has been relayed to another
\* connection.
C14_Witness ==
    /\ LastIsNego
    /\ last.data.blob = "o2"
    /\ last.id # last.data.to
    /\ trace[1].rcpt = {last.data.to}

\* C15 (as claimed): a relayed event reaches no connection other than the
\* one whose handle is the target.
C15_DeliveredToTargetOnly ==
    LastIsNego => \A i \in ForwardIdx(trace) : trace[i].rcpt \subseteq {last.data.to}

\* C16 (as claimed): every direct notice of a join carries a defined
\* identity, the one the noticed handle resolves to at that moment.
C16_NoticeHasIdentity ==
    LastIsJoin =>
        \A i \in NoticeIdx(trace) :
            /\ trace[i].body.email # Undefined
            /\ trace[i].body.email = socketIdToEmailMap[trace[i].body.id]

\* C17 (as claimed): when handle a is registered under identity e and
\* handle b joins as e, then whether a's close is handled inside the join
\* (the forced termination) or was handled just before it, the join ends
\* with e mapped to b, b mapped to e, and no entry for a in either map.
C17_SameOutcomeForEveryOrder ==
    [][\A a \in Handles :
          (/\ JoinStep
           /\ a # last'.id
           /\ \/ /\ status[a] = "open"
                 /\ emailToSocketIdMap[last'.data.email] = a
                 /\ socketIdToEmailMap[a] = last'.data.email
              \/ /\ last.ev = "disconnect"
                 /\ last.id = a
                 /\ last'.data.email \in joinedAs[a])
          => (/\ status'[a] = "closed"
              /\ emailToSocketIdMap'[last'.data.email] = last'.id
              /\ socketIdToEmailMap'[last'.id] = last'.data.email
              /\ socketIdToEmailMap'[a] = Undefined
              /\ \A e \in Emails : emailToSocketIdMap'[e] # a)]_vars

\* C18 (as claimed): a join under identity e closes a connection, or
\* removes its entry of socketIdToEmailMap, only if that connection
\* resolved to e just before the join.
C18_EvictsOnlySameIdentity ==
    [][JoinStep
       => \A h \in Handles \ {last'.id} :
             (\/ status[h] = "open" /\ status'[h] = "closed"
              \/ socketIdToEmailMap[h] # Undefined /\ socketIdToEmailMap'[h] = Undefined)
             => socketIdToEmailMap[h] = last'.data.email]_vars

\* C19 (as claimed): a negotiation event, whatever its payload, leaves both
\* maps and every room as they were and ends no connection (so the process
\* that holds them all is still running).
C19_NegotiationIsStateless ==
    [][last'.ev \in NegoEvents
       => (/\ UNCHANGED <<emailToSocketIdMap, socketIdToEmailMap, rooms, status>>
           /\ running')]_vars

\* C20: every entry of socketIdToEmailMap is mirrored in emailToSocketIdMap,
\* so the entry the disconnect listener of a handle deletes from
\* emailToSocketIdMap is one that points to that handle.
C20_HandleEntriesMirrored ==
    \A h \in Handles :
        socketIdToEmailMap[h] # Undefined
            => emailToSocketIdMap[socketIdToEmailMap[h]] = h

\* C20 witness: a registered handle has closed after a handle had joined
\* under two identities, and another handle is still registered.
C20_Witness ==
    /\ last.ev = "disconnect"
    /\ joinedAs[last.id] # {}
    /\ \E h \in Handles : Cardinality(joinedAs[h]) = 2
    /\ \E h \in Handles : socketIdToEmailMap[h] # Undefined

====
